---- MODULE Spec2Model ----
(***************************************************************************)
(* Baby sleep scheduler: the trainer (model.train) and the scheduler       *)
(* (model.predict, model.recalculate) of src/baby_sleep, with the time     *)
(* conversions of data.py.                                                 *)
(*                                                                         *)
(* An "HH:MM" string is the record [h, m]; a datetime is the number of     *)
(* minutes since today's midnight (it may pass 1440: the next day); a      *)
(* date string is its day number (ISO dates order as their days do).       *)
(***************************************************************************)
EXTENDS Integers, Sequences, FiniteSets

VARIABLES data, model_file, wake_time, corrections, model, schedule, op, calls

vars == <<data, model_file, wake_time, corrections, model, schedule, op, calls>>

----------------------------------------------------------------------------
(* Bounds of the model.                                                    *)

\* Largest typical_naps_count of a drawn Model.
MaxNaps == 3
\* Longest list of corrections handed to recalculate.
MaxCorrections == 2
\* Last calendar day (dates are 1..MaxDate) of a drawn record collection.
MaxDate == 5
\* Number of calls of the scheduler in a row.
MaxCalls == 2

----------------------------------------------------------------------------
(* Values.                                                                 *)

\* Python's None, for a time string.
None == [h |-> -1, m |-> -1]
\* model["trained_on"] before any training.
NoDate == 0
\* date.today(): the collection may hold one later date.
Today == MaxDate - 1

HM(hh, mm) == [h |-> hh, m |-> mm]

\* Order of two zero-padded "HH:MM" strings (string order = clock order).
TimeLt(a, b) == a.h < b.h \/ (a.h = b.h /\ a.m < b.m)
TimeLeq(a, b) == a = b \/ TimeLt(a, b)

\* datetime.strptime(s, "%H:%M") placed on today's date.
parse_time(s) == s.h * 60 + s.m

\* Faulty variant of format_time: the 12-hour clock of "%I:%M".
format_time_12h(dt) ==
    [h |-> IF (dt \div 60) % 12 = 0 THEN 12 ELSE (dt \div 60) % 12, m |-> dt % 60]

\* dt.strftime("%H:%M"): the day is dropped.
format_time(dt) == [h |-> (dt \div 60) % 24, m |-> dt % 60]

\* Both strings are parsed on the same (default) day; the difference is signed.
time_diff_minutes(start, end) == (end.h * 60 + end.m) - (start.h * 60 + start.m)

get_default_model ==
    [wake_windows |-> <<150, 165, 180>>,
     nap_durations |-> <<75, 90, 45>>,
     typical_naps_count |-> 3,
     night_sleep_window |-> 120,
     night_sleep_duration |-> 660,
     trained_on |-> NoDate,
     days_count |-> 0]

----------------------------------------------------------------------------
(* Scheduler.                                                              *)

\* model["wake_windows"][i] if i < len(model["wake_windows"]) else 180
SlotWakeWindow(mdl, i) ==
    IF i < Len(mdl.wake_windows) THEN mdl.wake_windows[i + 1] ELSE 180

\* model["nap_durations"][i] if i < len(model["nap_durations"]) else 60
SlotNapDuration(mdl, i) ==
    IF i < Len(mdl.nap_durations) THEN mdl.nap_durations[i + 1] ELSE 60

\* Faulty variant of PredictedNap: the end is counted from the cursor, not the start.
PredictedNapEndFromCursor(mdl, i, current_time) ==
    LET nap_start == current_time + SlotWakeWindow(mdl, i)
        nap_end == current_time + SlotNapDuration(mdl, i)
    IN  [nap |-> [start |-> format_time(nap_start),
                  end |-> format_time(nap_end),
                  duration_minutes |-> SlotNapDuration(mdl, i),
                  predicted |-> TRUE],
         cursor |-> nap_end]

\* The nap of an uncorrected slot, projected from the cursor.
PredictedNap(mdl, i, current_time) ==
    LET nap_start == current_time + SlotWakeWindow(mdl, i)
        nap_end == nap_start + SlotNapDuration(mdl, i)
    IN  [nap |-> [start |-> format_time(nap_start),
                  end |-> format_time(nap_end),
                  duration_minutes |-> SlotNapDuration(mdl, i),
                  predicted |-> TRUE],
         cursor |-> nap_end]

\* Faulty variant of ConfirmedNap: the cursor moves to the corrected start.
ConfirmedNapCursorAtStart(corr) ==
    [nap |-> [start |-> corr.start,
              end |-> corr.end,
              duration_minutes |-> time_diff_minutes(corr.start, corr.end),
              predicted |-> FALSE],
     cursor |-> parse_time(corr.start)]

\* The nap of a slot whose correction gives start and end.
ConfirmedNap(corr) ==
    [nap |-> [start |-> corr.start,
              end |-> corr.end,
              duration_minutes |-> time_diff_minutes(corr.start, corr.end),
              predicted |-> FALSE],
     cursor |-> parse_time(corr.end)]

\* Faulty variant of StartedNap: the nap in progress is reported as confirmed.
StartedNapConfirmed(mdl, i, corr) ==
    LET nap_end_dt == parse_time(corr.start) + SlotNapDuration(mdl, i)
    IN  [nap |-> [start |-> corr.start,
                  end |-> format_time(nap_end_dt),
                  duration_minutes |-> SlotNapDuration(mdl, i),
                  predicted |-> FALSE],
         cursor |-> nap_end_dt]

\* The nap of a slot whose correction gives only the start.
StartedNap(mdl, i, corr) ==
    LET nap_end_dt == parse_time(corr.start) + SlotNapDuration(mdl, i)
    IN  [nap |-> [start |-> corr.start,
                  end |-> format_time(nap_end_dt),
                  duration_minutes |-> SlotNapDuration(mdl, i),
                  predicted |-> TRUE],
         cursor |-> nap_end_dt]

\* Faulty variant of corrections_by_index: keyed by nap_number, not nap_number - 1.
corrections_by_number(corrs) ==
    [i \in {corrs[k].nap_number : k \in DOMAIN corrs} |->
        LET last == CHOOSE k \in DOMAIN corrs :
                        /\ corrs[k].nap_number = i
                        /\ \A j \in DOMAIN corrs : corrs[j].nap_number = i => j <= k
        IN  corrs[last]]

\* {c["nap_number"] - 1: c for c in corrections}: the last correction of an
\* index wins.
corrections_by_index(corrs) ==
    [i \in {corrs[k].nap_number - 1 : k \in DOMAIN corrs} |->
        LET last == CHOOSE k \in DOMAIN corrs :
                        /\ corrs[k].nap_number - 1 = i
                        /\ \A j \in DOMAIN corrs :
                               corrs[j].nap_number - 1 = i => j <= k
        IN  corrs[last]]

\* One slot of recalculate's loop.
RecalcSlot(mdl, cbi, i, current_time) ==
    IF i \in DOMAIN cbi
    THEN IF cbi[i].end # None
         THEN ConfirmedNap(cbi[i])
         ELSE StartedNap(mdl, i, cbi[i])
    ELSE PredictedNap(mdl, i, current_time)

RECURSIVE PredictLoop(_, _, _, _)
PredictLoop(mdl, i, current_time, naps) ==
    IF i >= mdl.typical_naps_count
    THEN [naps |-> naps, cursor |-> current_time]
    ELSE LET s == PredictedNap(mdl, i, current_time)
         IN  PredictLoop(mdl, i + 1, s.cursor, Append(naps, s.nap))

RECURSIVE RecalcLoop(_, _, _, _, _)
RecalcLoop(mdl, cbi, i, current_time, naps) ==
    IF i >= mdl.typical_naps_count
    THEN [naps |-> naps, cursor |-> current_time]
    ELSE LET s == RecalcSlot(mdl, cbi, i, current_time)
         IN  RecalcLoop(mdl, cbi, i + 1, s.cursor, Append(naps, s.nap))

predict(wt, mdl) ==
    LET r == PredictLoop(mdl, 0, parse_time(wt), <<>>)
    IN  [wake_time |-> wt,
         naps |-> r.naps,
         night_sleep |-> format_time(r.cursor + mdl.night_sleep_window),
         night_predicted |-> TRUE]

recalculate(wt, corrs, mdl) ==
    LET r == RecalcLoop(mdl, corrections_by_index(corrs), 0, parse_time(wt), <<>>)
    IN  [wake_time |-> wt,
         naps |-> r.naps,
         night_sleep |-> format_time(r.cursor + mdl.night_sleep_window),
         night_predicted |-> TRUE]

NoSchedule ==
    [wake_time |-> None, naps |-> <<>>, night_sleep |-> None,
     night_predicted |-> TRUE]

----------------------------------------------------------------------------
(* Inputs of the scheduler.                                                *)

\* Wake times: ordinary mornings, a late morning whose night sleep falls
\* after midnight, and an evening whose naps do.
WakeInputs == {HM(6, 30), HM(7, 0), HM(7, 15), HM(10, 30), HM(20, 0)}

\* Per-slot statistics of two households: the default pattern continued, and
\* one whose second nap was logged with equal start and end.
ProfileWindow(p, i) == IF p = 1 THEN 150 + 15 * i ELSE IF i = 0 THEN 0 ELSE 95
ProfileDuration(p, i) ==
    IF p = 1 THEN (IF i = 0 THEN 75 ELSE IF i = 1 THEN 90 ELSE 45)
    ELSE (IF i = 1 THEN 0 ELSE 40)
ProfileNight(p) == IF p = 1 THEN 120 ELSE 135

MkModel(p, n, k, j) ==
    [wake_windows |-> [x \in 1..k |-> ProfileWindow(p, x - 1)],
     nap_durations |-> [x \in 1..j |-> ProfileDuration(p, x - 1)],
     typical_naps_count |-> n,
     night_sleep_window |-> ProfileNight(p),
     night_sleep_duration |-> 660,
     trained_on |-> Today,
     days_count |-> 2]

\* Models whose arrays cover every slot, or stop one slot short.
ModelInputs ==
    {get_default_model} \cup
    UNION {{MkModel(p, n, k, j) : p \in 1..2, k \in {n - 1, n}, j \in {n - 1, n}} :
               n \in 1..MaxNaps}

Corr(n, s, e) == [nap_number |-> n, start |-> s, end |-> e]

CorrectionPool ==
    {Corr(1, HM(9, 30), HM(10, 45)),
     Corr(1, HM(9, 40), None),
     Corr(2, HM(11, 0), HM(12, 30)),
     Corr(2, HM(8, 0), None),
     Corr(2, HM(13, 0), HM(12, 0)),
     Corr(MaxNaps, HM(23, 30), None),
     Corr(0, HM(9, 0), HM(9, 45)),
     Corr(MaxNaps + 1, HM(16, 0), HM(16, 30))}

RECURSIVE SeqsUpTo(_, _)
SeqsUpTo(S, n) ==
    IF n = 0 THEN {<<>>}
    ELSE LET shorter == SeqsUpTo(S, n - 1)
         IN  shorter \cup {Append(q, x) : q \in shorter, x \in S}

CorrectionInputs == SeqsUpTo(CorrectionPool, MaxCorrections)

----------------------------------------------------------------------------
(* The scheduler's calls.                                                  *)

InitSched ==
    /\ data = <<>>
    /\ model_file = get_default_model
    /\ wake_time \in WakeInputs
    /\ corrections \in CorrectionInputs
    /\ model \in ModelInputs
    /\ schedule = NoSchedule
    /\ op = "init"
    /\ calls = 0

\* Faulty variant of DoPredict: the naps are appended to a list that outlives
\* the call.
DoPredictKeepingNaps ==
    /\ calls < MaxCalls
    /\ schedule' = [predict(wake_time, model) EXCEPT
                       !.naps = schedule.naps \o predict(wake_time, model).naps]
    /\ op' = "predict"
    /\ calls' = calls + 1
    /\ UNCHANGED <<data, model_file, wake_time, corrections, model>>

\* predict(wake_time, model): the arguments are read, the schedule is new.
DoPredict ==
    /\ calls < MaxCalls
    /\ schedule' = predict(wake_time, model)
    /\ op' = "predict"
    /\ calls' = calls + 1
    /\ UNCHANGED <<data, model_file, wake_time, corrections, model>>

\* recalculate(wake_time, corrections, model)
DoRecalculate ==
    /\ calls < MaxCalls
    /\ schedule' = recalculate(wake_time, corrections, model)
    /\ op' = "recalculate"
    /\ calls' = calls + 1
    /\ UNCHANGED <<data, model_file, wake_time, corrections, model>>

NextSched == DoPredict \/ DoRecalculate

SpecSched == InitSched /\ [][NextSched]_vars

----------------------------------------------------------------------------
(* Trainer.                                                                *)

\* A record of data["days"] as add_day builds it: without predictions
\* (NoSchedule stands for the missing key and for None).
Day(d, wake, naps, night) ==
    [date |-> d, morning_wake |-> wake, naps |-> naps, night_sleep |-> night,
     predictions |-> NoSchedule]

Nap(s, e) == [start |-> s, end |-> e, predicted |-> FALSE]

\* Faulty variant of get_historical_days: a day without a night sleep counts.
get_historical_days_without_night(days) ==
    LET completed(day) ==
            /\ day.date # Today
            /\ day.morning_wake # None
            /\ day.naps # <<>>
    IN  SelectSeq(days, completed)

\* Faulty variant of get_historical_days: today's record is not left out.
get_historical_days_with_today(days) ==
    LET completed(day) ==
            /\ day.morning_wake # None
            /\ day.naps # <<>>
            /\ day.night_sleep # None
    IN  SelectSeq(days, completed)

\* The completed days: not today's, with a wake time, naps and a night sleep.
get_historical_days(days) ==
    LET completed(day) ==
            /\ day.date # Today
            /\ day.morning_wake # None
            /\ day.naps # <<>>
            /\ day.night_sleep # None
    IN  SelectSeq(days, completed)

RECURSIVE SumSeq(_)
SumSeq(q) == IF q = <<>> THEN 0 ELSE Head(q) + SumSeq(Tail(q))

\* Faulty variant of np_mean_int: floor division.
np_mean_floor(samples) == SumSeq(samples) \div Len(samples)

\* int(np.mean(samples)): the mean, truncated toward zero.
np_mean_int(samples) ==
    LET total == SumSeq(samples)
        n == Len(samples)
    IN  IF total >= 0 THEN total \div n ELSE -((-total) \div n)

RECURSIVE InsertSorted(_, _)
InsertSorted(q, x) ==
    IF q = <<>> THEN <<x>>
    ELSE IF x < Head(q) THEN <<x>> \o q
    ELSE <<Head(q)>> \o InsertSorted(Tail(q), x)

RECURSIVE SortInts(_)
SortInts(q) == IF q = <<>> THEN <<>> ELSE InsertSorted(SortInts(Tail(q)), Head(q))

\* Faulty variant of np_median_int: the mean of the two middle counts is
\* rounded up.
np_median_rounded_up(counts) ==
    LET sorted == SortInts(counts)
        n == Len(sorted)
    IN  IF n % 2 = 1 THEN sorted[(n + 1) \div 2]
        ELSE (sorted[n \div 2] + sorted[n \div 2 + 1] + 1) \div 2

\* int(np.median(counts)): the middle count, or the truncated mean of the
\* two middle counts.
np_median_int(counts) ==
    LET sorted == SortInts(counts)
        n == Len(sorted)
    IN  IF n % 2 = 1 THEN sorted[(n + 1) \div 2]
        ELSE (sorted[n \div 2] + sorted[n \div 2 + 1]) \div 2

RECURSIVE InsertDay(_, _)
InsertDay(q, day) ==
    IF q = <<>> THEN <<day>>
    ELSE IF day.date < Head(q).date THEN <<day>> \o q
    ELSE <<Head(q)>> \o InsertDay(Tail(q), day)

\* sorted(days, key=lambda d: d["date"]), stable.
RECURSIVE SortByDate(_)
SortByDate(days) ==
    IF days = <<>> THEN <<>>
    ELSE InsertDay(SortByDate(SubSeq(days, 1, Len(days) - 1)), days[Len(days)])

\* The days that have a nap in slot i.
DaysWithSlot(sorted_days, i) ==
    LET has(day) == Len(day.naps) > i IN SelectSeq(sorted_days, has)

\* wake_windows_by_nap[i]: from the morning wake, else the previous nap's
\* end, to the start of nap i.
wake_windows_by_nap(sorted_days, i) ==
    LET ds == DaysWithSlot(sorted_days, i)
    IN  [k \in 1..Len(ds) |->
            time_diff_minutes(IF i = 0 THEN ds[k].morning_wake ELSE ds[k].naps[i].end,
                              ds[k].naps[i + 1].start)]

\* nap_durations_by_nap[i]
nap_durations_by_nap(sorted_days, i) ==
    LET ds == DaysWithSlot(sorted_days, i)
    IN  [k \in 1..Len(ds) |->
            time_diff_minutes(ds[k].naps[i + 1].start, ds[k].naps[i + 1].end)]

\* A day without naps is passed over (`if not naps: continue`).
nap_counts(sorted_days) ==
    LET ds == DaysWithSlot(sorted_days, 0)
    IN  [k \in 1..Len(ds) |-> Len(ds[k].naps)]

\* From the last nap's end to the night sleep.
night_windows(sorted_days) ==
    LET has(day) == day.naps # <<>> /\ day.night_sleep # None
        ds == SelectSeq(sorted_days, has)
    IN  [k \in 1..Len(ds) |->
            time_diff_minutes(ds[k].naps[Len(ds[k].naps)].end, ds[k].night_sleep)]

\* days_by_date[day.date + 1], among the sorted (completed) days: the last
\* record of a date is the one the dictionary keeps.
NextDay(sorted_days, day) ==
    sorted_days[CHOOSE j \in DOMAIN sorted_days :
                    /\ sorted_days[j].date = day.date + 1
                    /\ \A l \in DOMAIN sorted_days :
                           sorted_days[l].date = day.date + 1 => l <= j]

\* next_date in days_by_date and next_day.get("morning_wake")
HasNextDay(sorted_days, day) ==
    /\ \E k \in DOMAIN sorted_days : sorted_days[k].date = day.date + 1
    /\ NextDay(sorted_days, day).morning_wake # None

\* Faulty variant of NightDuration: the wake time is not moved to the next day.
NightDurationSameDay(night_time, wake) ==
    (wake.h * 60 + wake.m) - (night_time.h * 60 + night_time.m)

\* From the night sleep through midnight to the next day's morning wake.
NightDuration(night_time, wake) ==
    (24 * 60 - night_time.h * 60 - night_time.m) + (wake.h * 60 + wake.m)

night_durations(sorted_days) ==
    LET paired(day) == day.night_sleep # None /\ HasNextDay(sorted_days, day)
        ds == SelectSeq(sorted_days, paired)
    IN  [k \in 1..Len(ds) |->
            NightDuration(ds[k].night_sleep, NextDay(sorted_days, ds[k]).morning_wake)]

typical_naps(sorted_days) ==
    IF nap_counts(sorted_days) # <<>> THEN np_median_int(nap_counts(sorted_days)) ELSE 3

\* Faulty variant of wake_windows: one entry per slot observed on any day.
wake_windows_of_observed_slots(sorted_days) ==
    LET observed == {i \in 0..8 : wake_windows_by_nap(sorted_days, i) # <<>>}
    IN  [x \in 1..Cardinality(observed) |->
            np_mean_int(wake_windows_by_nap(sorted_days, x - 1))]

\* The per-slot wake windows of the model: the slot's mean, else 150 + 15 i.
wake_windows(sorted_days) ==
    [x \in 1..typical_naps(sorted_days) |->
        IF wake_windows_by_nap(sorted_days, x - 1) # <<>>
        THEN np_mean_int(wake_windows_by_nap(sorted_days, x - 1))
        ELSE 150 + (x - 1) * 15]

\* The per-slot nap durations of the model: the slot's mean, else 75, 90, 45.
nap_durations(sorted_days) ==
    [x \in 1..typical_naps(sorted_days) |->
        IF nap_durations_by_nap(sorted_days, x - 1) # <<>>
        THEN np_mean_int(nap_durations_by_nap(sorted_days, x - 1))
        ELSE IF x - 1 = 0 THEN 75 ELSE IF x - 1 = 1 THEN 90 ELSE 45]

train(days_all) ==
    LET days == get_historical_days(days_all)
        sorted_days == SortByDate(days)
    IN  IF days = <<>>
        THEN [get_default_model EXCEPT !.trained_on = Today]
        ELSE [wake_windows |-> wake_windows(sorted_days),
              nap_durations |-> nap_durations(sorted_days),
              typical_naps_count |-> typical_naps(sorted_days),
              night_sleep_window |->
                  IF night_windows(sorted_days) # <<>>
                  THEN np_mean_int(night_windows(sorted_days)) ELSE 120,
              night_sleep_duration |->
                  IF night_durations(sorted_days) # <<>>
                  THEN np_mean_int(night_durations(sorted_days)) ELSE 660,
              trained_on |-> Today,
              days_count |-> Len(days)]

----------------------------------------------------------------------------
(* Inputs of the trainer.                                                  *)

\* The days a collection is drawn from: one and two naps; three naps, the
\* first logged before the wake time; today's record after predict (a wake
\* time only) and after nap corrections (no night sleep yet); a record
\* created empty; and a day added without naps.
DayShape(d, shape) ==
    CASE shape = 1 -> Day(d, HM(7, 0), <<Nap(HM(9, 30), HM(10, 45))>>, HM(20, 0))
      [] shape = 2 -> Day(d, HM(7, 0), <<Nap(HM(9, 40), HM(11, 0)),
                                         Nap(HM(13, 30), HM(15, 0))>>, HM(19, 30))
      [] shape = 3 -> Day(d, HM(12, 0), <<Nap(HM(6, 15), HM(6, 45)),
                                          Nap(HM(9, 0), HM(10, 15)),
                                          Nap(HM(12, 45), HM(14, 30))>>, HM(19, 45))
      [] shape = 4 -> Day(d, HM(7, 15), <<>>, None)
      [] shape = 5 -> Day(d, HM(7, 0), <<Nap(HM(9, 30), HM(10, 45))>>, None)
      [] shape = 6 -> Day(d, None, <<>>, None)
      [] shape = 7 -> Day(d, HM(7, 0), <<>>, HM(20, 0))

\* A record lacks its night sleep or its wake time only if it was created as
\* today's: here yesterday's and today's may. 0: no record of the date.
ShapesAt(d) == IF d \in {Today - 1, Today} THEN 0..7 ELSE {0, 1, 2, 3, 7}

\* The records of a choice of shape per date, in date order.
RECURSIVE Collection(_, _)
Collection(choice, d) ==
    IF d = 0 THEN <<>>
    ELSE IF choice[d] = 0 THEN Collection(choice, d - 1)
    ELSE Append(Collection(choice, d - 1), DayShape(d, choice[d]))

\* get_today appends today's record: it comes last even when a later date
\* was added before.
TodayLast(days) ==
    LET today(day) == day.date = Today
        other(day) == day.date # Today
    IN  SelectSeq(days, other) \o SelectSeq(days, today)

DataInputs ==
    LET choices == {c \in [1..MaxDate -> 0..7] : \A d \in 1..MaxDate : c[d] \in ShapesAt(d)}
        sorted == {Collection(c, MaxDate) : c \in choices}
    IN  sorted \cup {TodayLast(q) : q \in sorted}

----------------------------------------------------------------------------
(* The trainer's call.                                                     *)

InitTrain ==
    /\ data \in DataInputs
    /\ model_file = get_default_model
    /\ wake_time = None
    /\ corrections = <<>>
    /\ model = get_default_model
    /\ schedule = NoSchedule
    /\ op = "init"
    /\ calls = 0

\* train(data): the model is saved and returned.
DoTrain ==
    /\ op = "init"
    /\ model' = train(data)
    /\ model_file' = train(data)
    /\ op' = "train"
    /\ calls' = calls + 1
    /\ UNCHANGED <<data, wake_time, corrections, schedule>>

NextTrain == DoTrain

SpecTrain == InitTrain /\ [][NextTrain]_vars

----------------------------------------------------------------------------
(* The record collection.                                                  *)

\* get_day(data, date_str): the position of the first record of the date, 0
\* for None.
get_day(days, d) ==
    IF \E k \in DOMAIN days : days[k].date = d
    THEN CHOOSE k \in DOMAIN days :
             /\ days[k].date = d
             /\ \A j \in DOMAIN days : days[j].date = d => k <= j
    ELSE 0

\* get_today(data): today's record is appended, empty, when there is none.
get_today(days) ==
    IF get_day(days, Today) = 0
    THEN Append(days, Day(Today, None, <<>>, None))
    ELSE days

\* days.remove(existing): the first record equal to it goes.
RemoveAt(days, k) == SubSeq(days, 1, k - 1) \o SubSeq(days, k + 1, Len(days))

\* add_day(data, date_str, morning_wake, naps, night_sleep): the record of
\* the date is replaced and the list sorted by date.
add_day(days, d, wake, naps, night) ==
    LET existing == get_day(days, d)
        kept == IF existing # 0 THEN RemoveAt(days, existing) ELSE days
    IN  SortByDate(Append(kept, Day(d, wake, naps, night)))

\* The days add can be given: complete, or without naps.
AddShapes == {1, 2, 3, 7}

InitData ==
    /\ data = <<>>
    /\ model_file = get_default_model
    /\ wake_time = None
    /\ corrections = <<>>
    /\ model = get_default_model
    /\ schedule = NoSchedule
    /\ op = "init"
    /\ calls = 0

DoGetToday ==
    /\ data' = get_today(data)
    /\ op' = "get_today"
    /\ UNCHANGED <<model_file, wake_time, corrections, model, schedule, calls>>

DoAddDay ==
    \E d \in 1..MaxDate, shape \in AddShapes :
        /\ data' = add_day(data, d, DayShape(d, shape).morning_wake,
                           DayShape(d, shape).naps, DayShape(d, shape).night_sleep)
        /\ op' = "add_day"
        /\ UNCHANGED <<model_file, wake_time, corrections, model, schedule, calls>>

NextData == DoGetToday \/ DoAddDay

SpecData == InitData /\ [][NextData]_vars

----------------------------------------------------------------------------
(* The commands predict and correct.                                       *)

\* datetime.strptime(time_str, "%H:%M") succeeds.
validate_time(s) == s.h \in 0..23 /\ s.m \in 0..59

\* The command-line TARGET: "night", an integer, or another word.
Night == [kind |-> "night", n |-> 0]
NapNumber(k) == [kind |-> "int", n |-> k]
Word == [kind |-> "word", n |-> 0]

\* corrections of cli.correct: the naps of today's record that are not
\* predicted, numbered from 1.
RECURSIVE confirmed_corrections(_, _)
confirmed_corrections(naps, i) ==
    IF i > Len(naps) THEN <<>>
    ELSE (IF ~naps[i].predicted THEN <<Corr(i, naps[i].start, naps[i].end)>> ELSE <<>>)
            \o confirmed_corrections(naps, i + 1)

\* Faulty variant of with_correction: the list starts afresh.
with_correction_alone(corrs, new) == <<new>>

\* The earlier correction of the same nap is removed, the new one appended.
with_correction(corrs, new) ==
    LET other(c) == c.nap_number # new.nap_number
    IN  Append(SelectSeq(corrs, other), new)

\* "Preserve night sleep correction if it was already set".
preserve_night(sch, predictions) ==
    IF predictions # NoSchedule /\ ~predictions.night_predicted
    THEN [sch EXCEPT !.night_sleep = predictions.night_sleep,
                     !.night_predicted = FALSE]
    ELSE sch

\* cli.predict: what is saved, and the outcome.
cli_predict(days, mdl, wt) ==
    IF ~validate_time(wt)
    THEN [days |-> days, out |-> "error_wake_time", corrections |-> <<>>]
    ELSE LET loaded == get_today(days)
             k == get_day(loaded, Today)
         IN  [days |-> [loaded EXCEPT ![k].morning_wake = wt,
                                      ![k].predictions = predict(wt, mdl)],
              out |-> "predict",
              corrections |-> <<>>]

\* Faulty variant of Rejected: the loaded collection is saved on the way out.
RejectedSavingLoaded(days, loaded, why) ==
    [days |-> loaded, out |-> why, corrections |-> <<>>]

\* display.error(...) and return: nothing is saved, and the record get_today
\* may have appended to the loaded collection is dropped with it.
Rejected(days, loaded, why) ==
    [days |-> days, out |-> why, corrections |-> <<>>]

\* cli.correct: what is saved, the outcome, and the corrections handed to
\* recalculate.
cli_correct(days, mdl, target, start, end) ==
    LET loaded == get_today(days)
        k == get_day(loaded, Today)
        today == loaded[k]
        rejected(why) == Rejected(days, loaded, why)
    IN  IF ~validate_time(start) THEN rejected("error_time")
        ELSE IF today.morning_wake = None THEN rejected("error_no_wake")
        ELSE IF target.kind = "night"
        THEN [days |-> IF today.predictions # NoSchedule
                       THEN [loaded EXCEPT ![k].night_sleep = start,
                                           ![k].predictions.night_sleep = start,
                                           ![k].predictions.night_predicted = FALSE]
                       ELSE [loaded EXCEPT ![k].night_sleep = start],
              out |-> "correct_night",
              corrections |-> <<>>]
        ELSE IF target.kind # "int" THEN rejected("error_target")
        ELSE IF end # None /\ ~validate_time(end) THEN rejected("error_end")
        ELSE IF target.n < 1 \/ target.n > mdl.typical_naps_count
        THEN rejected("error_nap_number")
        ELSE LET corrs == with_correction(confirmed_corrections(today.naps, 1),
                                          Corr(target.n, start, end))
                 sch == preserve_night(recalculate(today.morning_wake, corrs, mdl),
                                       today.predictions)
             IN  [days |-> [loaded EXCEPT ![k].predictions = sch,
                                          ![k].naps = sch.naps],
                  out |-> "correct_nap",
                  corrections |-> corrs]

\* The arguments typed at the command line.
CliWakes == {HM(7, 0), HM(7, 15), HM(7, 61)}
CliStarts == {HM(9, 30), HM(13, 0), HM(24, 0)}
CliEnds == {None, HM(10, 45), HM(10, 75)}
CliTargets == {Night, Word} \cup {NapNumber(k) : k \in 0..(MaxNaps + 1)}

\* The saved model: the default one, or the one trained from two earlier
\* days (a single nap a day).
CliHistory == <<DayShape(1, 1), DayShape(2, 2)>>

InitCli ==
    /\ \/ data = <<>> /\ model_file = get_default_model
       \/ data = CliHistory /\ model_file \in {get_default_model, train(CliHistory)}
    /\ wake_time = None
    /\ corrections = <<>>
    /\ model = get_default_model
    /\ schedule = NoSchedule
    /\ op = "init"
    /\ calls = 0

CmdPredict ==
    \E wt \in CliWakes :
        LET r == cli_predict(data, model_file, wt) IN
        /\ data' = r.days
        /\ op' = r.out
        /\ corrections' = r.corrections
        /\ UNCHANGED <<model_file, wake_time, model, schedule, calls>>

CmdCorrect ==
    \E target \in CliTargets, start \in CliStarts, end \in CliEnds :
        LET r == cli_correct(data, model_file, target, start, end) IN
        /\ data' = r.days
        /\ op' = r.out
        /\ corrections' = r.corrections
        /\ UNCHANGED <<model_file, wake_time, model, schedule, calls>>

NextCli == CmdPredict \/ CmdCorrect

SpecCli == InitCli /\ [][NextCli]_vars

----------------------------------------------------------------------------
(* Properties of the scheduler.                                            *)

\* Minutes after midnight shown by an "HH:MM" value.
Clock(s) == s.h * 60 + s.m

\* The event before slot i (0-based) of a schedule: the wake time, else the
\* previous nap's end.
PrevEnd(sch, i) == IF i = 0 THEN sch.wake_time ELSE sch.naps[i].end

Slots(mdl) == 0..(mdl.typical_naps_count - 1)

\* Every window the schedule uses is non-negative and every duration positive.
SaneModel(mdl) ==
    /\ mdl.night_sleep_window >= 0
    /\ \A i \in Slots(mdl) :
          /\ (IF i < Len(mdl.wake_windows) THEN mdl.wake_windows[i + 1] ELSE 180) >= 0
          /\ (IF i < Len(mdl.nap_durations) THEN mdl.nap_durations[i + 1] ELSE 60) > 0

RECURSIVE SumTo(_, _)
SumTo(f, n) == IF n = 0 THEN 0 ELSE f[n] + SumTo(f, n - 1)

\* Minutes from the wake time to the night sleep of an uncorrected day.
DaySpan(mdl) ==
    LET n == mdl.typical_naps_count
        w == [x \in 1..n |-> IF x <= Len(mdl.wake_windows)
                             THEN mdl.wake_windows[x] ELSE 180]
        d == [x \in 1..n |-> IF x <= Len(mdl.nap_durations)
                             THEN mdl.nap_durations[x] ELSE 60]
    IN  SumTo(w, n) + SumTo(d, n) + mdl.night_sleep_window

\* The naps and the night sleep of a schedule are in clock order.
ClockOrdered(sch) ==
    /\ \A x \in DOMAIN sch.naps :
          /\ TimeLt(sch.naps[x].start, sch.naps[x].end)
          /\ TimeLeq(PrevEnd(sch, x - 1), sch.naps[x].start)
    /\ TimeLeq(PrevEnd(sch, Len(sch.naps)), sch.night_sleep)

\* C1 as stated: predict returns n naps, each ending after it starts and
\* starting no earlier than the previous event's end, and a night sleep no
\* earlier than the last nap's end, compared as HH:MM values, for any model
\* and any wake time.
C1_AnyWakeAnyModel ==
    op = "predict" =>
        /\ Len(schedule.naps) = model.typical_naps_count
        /\ ClockOrdered(schedule)

\* C1 amended: predict always returns n naps; they and the night sleep are in
\* clock order when the model's windows are non-negative, its durations
\* positive, and the night sleep falls before midnight of the wake day.
C1_PredictOrderedWithinDay ==
    op = "predict" =>
        /\ Len(schedule.naps) = model.typical_naps_count
        /\ (SaneModel(model) /\ Clock(wake_time) + DaySpan(model) < 1440
               => ClockOrdered(schedule))

C1_Witness ==
    /\ op = "predict"
    /\ model = get_default_model
    /\ wake_time = HM(7, 0)
    /\ Len(schedule.naps) = 3
    /\ schedule.naps[2].start = HM(13, 30)
    /\ schedule.night_sleep = HM(20, 45)

\* The corrections of the list that name slot i (0-based), and the one that
\* counts: the last supplied.
Naming(corrs, i) == {k \in DOMAIN corrs : corrs[k].nap_number = i + 1}
Corrected(corrs, i) == Naming(corrs, i) # {}
Counting(corrs, i) ==
    corrs[CHOOSE k \in Naming(corrs, i) : \A j \in Naming(corrs, i) : j <= k]

\* The model's window and duration of slot i, with the scheduler's defaults.
WindowOf(mdl, i) == IF i < Len(mdl.wake_windows) THEN mdl.wake_windows[i + 1] ELSE 180
DurationOf(mdl, i) == IF i < Len(mdl.nap_durations) THEN mdl.nap_durations[i + 1] ELSE 60

\* The clock value t minutes after the clock value s.
ClockAfter(s, t) == LET c == (Clock(s) + t) % 1440 IN HM(c \div 60, c % 60)

\* C2: a slot whose correction gives start and end is returned with exactly
\* these, the minutes between them as duration and predicted = false; a slot
\* without a correction is predicted = true with the model's duration; and
\* the uncorrected slot after a fully corrected one starts its wake window
\* after the corrected end.
C2_CorrectionOverride ==
    op = "recalculate" =>
        /\ Len(schedule.naps) = model.typical_naps_count
        /\ \A i \in Slots(model) :
              LET nap == schedule.naps[i + 1] IN
              /\ (Corrected(corrections, i) /\ Counting(corrections, i).end # None) =>
                    /\ nap.start = Counting(corrections, i).start
                    /\ nap.end = Counting(corrections, i).end
                    /\ nap.duration_minutes = Clock(nap.end) - Clock(nap.start)
                    /\ nap.predicted = FALSE
                    /\ (i + 1 \in Slots(model) /\ ~Corrected(corrections, i + 1)) =>
                          schedule.naps[i + 2].start =
                              ClockAfter(Counting(corrections, i).end,
                                         WindowOf(model, i + 1))
              /\ ~Corrected(corrections, i) =>
                    /\ nap.predicted = TRUE
                    /\ nap.duration_minutes = DurationOf(model, i)

\* Wake 07:00, default model, correction {2, 11:00, 12:30}: nap 2 is
\* 11:00-12:30, 90 minutes, confirmed; nap 3 starts 180 minutes after 12:30
\* (the uncorrected projection would have been 18:00).
C2_Witness ==
    /\ op = "recalculate"
    /\ model = get_default_model
    /\ wake_time = HM(7, 0)
    /\ corrections = <<Corr(2, HM(11, 0), HM(12, 30))>>
    /\ schedule.naps[2] = [start |-> HM(11, 0), end |-> HM(12, 30),
                           duration_minutes |-> 90, predicted |-> FALSE]
    /\ schedule.naps[1].predicted /\ schedule.naps[3].predicted
    /\ schedule.naps[3].start = HM(15, 30)

\* C3: a slot whose correction gives only a start is returned with that
\* start, the model's duration for the slot (60 past the end of
\* nap_durations), the end that long after the start, and predicted = true;
\* the next event is projected from that end.
C3_StartOnlyCorrection ==
    op = "recalculate" =>
        \A i \in Slots(model) :
            (Corrected(corrections, i) /\ Counting(corrections, i).end = None) =>
                LET nap == schedule.naps[i + 1] IN
                /\ nap.start = Counting(corrections, i).start
                /\ nap.duration_minutes = DurationOf(model, i)
                /\ nap.end = ClockAfter(nap.start, nap.duration_minutes)
                /\ nap.predicted = TRUE
                /\ (i + 1 \in Slots(model) /\ ~Corrected(corrections, i + 1)) =>
                      schedule.naps[i + 2].start =
                          ClockAfter(nap.start,
                                     nap.duration_minutes + WindowOf(model, i + 1))
                /\ i + 1 = model.typical_naps_count =>
                      schedule.night_sleep =
                          ClockAfter(nap.start,
                                     nap.duration_minutes + model.night_sleep_window)

\* A nap in progress in the second slot of a model that has no duration for
\* it: 08:00, 60 minutes, and the night sleep projected from 09:00.
C3_Witness ==
    /\ op = "recalculate"
    /\ corrections = <<Corr(2, HM(8, 0), None)>>
    /\ model.typical_naps_count = 2
    /\ Len(model.nap_durations) = 1
    /\ model.night_sleep_window = 120
    /\ schedule.naps[2] = [start |-> HM(8, 0), end |-> HM(9, 0),
                           duration_minutes |-> 60, predicted |-> TRUE]
    /\ schedule.night_sleep = HM(11, 0)

\* A slot's nap follows the event before it and ends after it starts.
SlotOrdered(sch, i) ==
    /\ TimeLeq(PrevEnd(sch, i), sch.naps[i + 1].start)
    /\ TimeLt(sch.naps[i + 1].start, sch.naps[i + 1].end)

\* C4 as stated: every schedule recalculate returns has each nap ending
\* after it starts and starting no earlier than the previous nap's end.
C4_AlwaysOrdered ==
    op = "recalculate" =>
        \A i \in Slots(model) :
            /\ TimeLt(schedule.naps[i + 1].start, schedule.naps[i + 1].end)
            /\ i > 0 => TimeLeq(schedule.naps[i].end, schedule.naps[i + 1].start)

\* What the caller must supply for slot i to be ordered: a correction that
\* starts no earlier than the event before it and, if it gives an end, ends
\* after it starts.
CorrectionInOrder(sch, corrs, i) ==
    Corrected(corrs, i) =>
        /\ TimeLeq(PrevEnd(sch, i), Counting(corrs, i).start)
        /\ Counting(corrs, i).end # None =>
              TimeLt(Counting(corrs, i).start, Counting(corrs, i).end)

\* The projection of slot i stays before midnight: from the event before it
\* for an uncorrected slot, from the corrected start for a nap in progress.
ProjectionWithinDay(sch, corrs, mdl, i) ==
    IF ~Corrected(corrs, i)
    THEN Clock(PrevEnd(sch, i)) + WindowOf(mdl, i) + DurationOf(mdl, i) < 1440
    ELSE Counting(corrs, i).end = None =>
             Clock(Counting(corrs, i).start) + DurationOf(mdl, i) < 1440

\* C4 amended: with non-negative windows and positive durations, a slot's nap
\* starts no earlier than the event before it and ends after it starts
\* whenever its correction, if any, is itself in order and its projection
\* stays before midnight.
C4_OrderedWhenInputsAre ==
    op = "recalculate" =>
        \A i \in Slots(model) :
            (/\ SaneModel(model)
             /\ CorrectionInOrder(schedule, corrections, i)
             /\ ProjectionWithinDay(schedule, corrections, model, i))
                => SlotOrdered(schedule, i)

\* Nap 1 in progress since 09:40, nap 2 confirmed 11:00-12:30, nap 3
\* projected from 12:30: every slot in order.
C4_Witness ==
    /\ op = "recalculate"
    /\ model = get_default_model
    /\ wake_time = HM(7, 0)
    /\ corrections = <<Corr(1, HM(9, 40), None), Corr(2, HM(11, 0), HM(12, 30))>>
    /\ \A i \in Slots(model) :
          /\ CorrectionInOrder(schedule, corrections, i)
          /\ ProjectionWithinDay(schedule, corrections, model, i)
          /\ SlotOrdered(schedule, i)
    /\ schedule.naps[1].end = HM(10, 55)
    /\ schedule.naps[3].start = HM(15, 30)

\* The corrections whose slot index lies in 0..typical_naps_count-1.
InRange(corrs, mdl) ==
    LET keep(c) == c.nap_number - 1 \in Slots(mdl) IN SelectSeq(corrs, keep)

\* C5: corrections naming a slot outside 0..typical_naps_count-1 change
\* nothing: the schedule is the one of the list without them, and the one of
\* predict when no correction is in range.
C5_OutOfRangeIgnored ==
    op = "recalculate" =>
        /\ schedule = recalculate(wake_time, InRange(corrections, model), model)
        /\ InRange(corrections, model) = <<>> =>
              schedule = predict(wake_time, model)

\* One correction below the range and one above it.
C5_Witness ==
    /\ op = "recalculate"
    /\ Len(corrections) = 2
    /\ corrections[1].nap_number = 0
    /\ corrections[2].nap_number = model.typical_naps_count + 1
    /\ schedule = predict(wake_time, model)
    /\ Len(schedule.naps) = model.typical_naps_count

----------------------------------------------------------------------------
(* Properties of the trainer.                                              *)

\* A trainable record: a wake time, at least one nap, a night sleep.
Complete(r) == r.morning_wake # None /\ r.naps # <<>> /\ r.night_sleep # None

\* The records training uses: trainable and not today's.
Historical(r) == Complete(r) /\ r.date # Today

RECURSIVE SumOver(_, _)
SumOver(S, f) ==
    IF S = {} THEN 0
    ELSE LET x == CHOOSE y \in S : TRUE IN f[x] + SumOver(S \ {x}, f)

\* v is total / n truncated toward zero.
IsTruncatedMean(v, total, n) ==
    /\ n > 0
    /\ IF total >= 0 THEN v * n <= total /\ total < (v + 1) * n
       ELSE (v - 1) * n < total /\ total <= v * n

\* C6: without a trainable record, train returns (and saves) the default
\* model, stamped with today's date, days_count 0.
C6_DefaultWithoutTrainable ==
    (op = "train" /\ \A k \in DOMAIN data : ~Complete(data[k])) =>
        /\ model = [wake_windows |-> <<150, 165, 180>>,
                    nap_durations |-> <<75, 90, 45>>,
                    typical_naps_count |-> 3,
                    night_sleep_window |-> 120,
                    night_sleep_duration |-> 660,
                    trained_on |-> Today,
                    days_count |-> 0]
        /\ model_file = model

\* Records of earlier days, none trainable: one without a night sleep, one
\* without naps.
C6_Witness ==
    /\ op = "train"
    /\ Len(data) >= 2
    /\ \A k \in DOMAIN data : ~Complete(data[k])
    /\ \E k \in DOMAIN data :
          data[k].date < Today /\ data[k].naps # <<>> /\ data[k].night_sleep = None
    /\ \E k \in DOMAIN data : data[k].morning_wake # None /\ data[k].naps = <<>>
    /\ model.days_count = 0
    /\ model.trained_on = Today

\* The pairs (R, next) of records on adjacent dates.
Adjacent == {p \in (DOMAIN data) \X (DOMAIN data) : data[p[2]].date = data[p[1]].date + 1}

NightSample(p) == (1440 - Clock(data[p[1]].night_sleep)) + Clock(data[p[2]].morning_wake)

\* night_sleep_duration is the truncated mean of the samples of the pairs P,
\* or 660 without a pair.
NightDurationFrom(P) ==
    IF P = {} THEN model.night_sleep_duration = 660
    ELSE IsTruncatedMean(model.night_sleep_duration,
                         SumOver(P, [p \in P |-> NightSample(p)]), Cardinality(P))

\* C7 as stated: every trainable record R followed, on the next calendar
\* date, by a record with a morning wake time gives one night-duration
\* sample; no other pair does.
C7_NextDayWithWake ==
    op = "train" =>
        NightDurationFrom({p \in Adjacent : /\ Complete(data[p[1]])
                                            /\ data[p[2]].morning_wake # None})

\* C7 amended: the pairs that give a sample are those of two records on
\* adjacent dates that are both trainable and both not today's.
C7_BothDaysHistorical ==
    op = "train" =>
        NightDurationFrom({p \in Adjacent : /\ Historical(data[p[1]])
                                            /\ Historical(data[p[2]])})

\* Night sleep 19:30 on day 1, wake 07:00 on day 2: 690 minutes; the third
\* record, dated after today, is adjacent to neither.
C7_Witness ==
    /\ op = "train"
    /\ Len(data) = 3
    /\ data[1] = DayShape(1, 2)
    /\ data[2] = DayShape(2, 1)
    /\ data[3].date = Today + 1 /\ Historical(data[3])
    /\ model.night_sleep_duration = 690

WindowSample(r, i) ==
    Clock(r.naps[i + 1].start) - Clock(IF i = 0 THEN r.morning_wake ELSE r.naps[i].end)

DurationSample(r, i) == Clock(r.naps[i + 1].end) - Clock(r.naps[i + 1].start)

\* Every slot of the model has a sample among the records K, and its wake
\* window and nap duration are the truncated means of the samples.
SlotMeansOver(K) ==
    /\ Len(model.wake_windows) = model.typical_naps_count
    /\ Len(model.nap_durations) = model.typical_naps_count
    /\ \A i \in Slots(model) :
          LET Ki == {k \in K : Len(data[k].naps) > i} IN
          /\ Ki # {}
          /\ IsTruncatedMean(model.wake_windows[i + 1],
                             SumOver(Ki, [k \in Ki |-> WindowSample(data[k], i)]),
                             Cardinality(Ki))
          /\ IsTruncatedMean(model.nap_durations[i + 1],
                             SumOver(Ki, [k \in Ki |-> DurationSample(data[k], i)]),
                             Cardinality(Ki))

\* C8 as stated: trained from at least one trainable record, every slot of
\* the model has a sample and holds the truncated means over all trainable
\* records with a nap in the slot.
C8_MeansOverTrainable ==
    (op = "train" /\ \E k \in DOMAIN data : Complete(data[k])) =>
        SlotMeansOver({k \in DOMAIN data : Complete(data[k])})

\* C8 amended: the records that count are the trainable records of days
\* other than today.
C8_MeansOverHistorical ==
    (op = "train" /\ \E k \in DOMAIN data : Historical(data[k])) =>
        SlotMeansOver({k \in DOMAIN data : Historical(data[k])})

\* Wake windows of 150 and 160 minutes in slot 0 give 155.
C8_Witness ==
    /\ op = "train"
    /\ data = <<DayShape(1, 1), DayShape(2, 2)>>
    /\ model.typical_naps_count = 1
    /\ model.wake_windows = <<155>>
    /\ model.nap_durations = <<77>>

\* The case C9 is about: a slot of the trained model without a sample. (No
\* collection reaches it: the median of the nap counts never exceeds the
\* largest count.)
SlotWithoutSamples ==
    /\ op = "train"
    /\ \E k \in DOMAIN data : Historical(data[k])
    /\ \E i \in Slots(model) :
          \A k \in DOMAIN data : Historical(data[k]) => Len(data[k].naps) <= i

\* C10: the model train returns has one wake window and one nap duration
\* per slot, and at least one slot.
C10_ArraysMatchNapCount ==
    op = "train" =>
        /\ Len(model.wake_windows) = model.typical_naps_count
        /\ Len(model.nap_durations) = model.typical_naps_count
        /\ model.typical_naps_count >= 1

\* Days of one, two and three naps: two slots, though a third was observed.
C10_Witness ==
    /\ op = "train"
    /\ model.days_count = 3
    /\ \E k \in DOMAIN data : Historical(data[k]) /\ Len(data[k].naps) = 3
    /\ \E k \in DOMAIN data : Historical(data[k]) /\ Len(data[k].naps) = 1
    /\ model.typical_naps_count = 2
    /\ Len(model.wake_windows) = 2

NightWindowSample(r) == Clock(r.night_sleep) - Clock(r.naps[Len(r.naps)].end)

\* The records K are the ones training used: days_count counts them and the
\* night window is the truncated mean of their samples (the default model,
\* with no day counted, when there is none).
TrainedOn(K) ==
    /\ model.days_count = Cardinality(K)
    /\ IF K = {}
       THEN model.night_sleep_window = 120 /\ model.wake_windows = <<150, 165, 180>>
       ELSE IsTruncatedMean(model.night_sleep_window,
                            SumOver(K, [k \in K |-> NightWindowSample(data[k])]),
                            Cardinality(K))

\* C11 as stated: the records with a wake time, a nap and a night sleep, and
\* only they, contribute to training, and days_count is their number.
C11_AllTrainableUsed ==
    op = "train" => TrainedOn({k \in DOMAIN data : Complete(data[k])})

\* C11 amended: the records that contribute, and that days_count counts, are
\* the trainable records dated other than today; every other record is
\* skipped.
C11_HistoricalUsed ==
    op = "train" => TrainedOn({k \in DOMAIN data : Historical(data[k])})

\* Two completed earlier days, yesterday's record without a night sleep and
\* today's record complete: two days counted.
C11_Witness ==
    /\ op = "train"
    /\ Cardinality({k \in DOMAIN data : Historical(data[k])}) = 2
    /\ \E k \in DOMAIN data : data[k].date = Today /\ Complete(data[k])
    /\ \E k \in DOMAIN data : data[k].date = Today - 1 /\ data[k].night_sleep = None
                                 /\ data[k].naps # <<>>
    /\ model.days_count = 2

\* The nap counts of the records K, and the x-th smallest of them.
CountsAtMost(K, v) == Cardinality({k \in K : Len(data[k].naps) <= v})
Ranked(K, x) == CHOOSE v \in 0..8 :
                    /\ CountsAtMost(K, v) >= x
                    /\ \A u \in 0..8 : CountsAtMost(K, u) >= x => v <= u

\* typical_naps_count is the median of the nap counts of the records K,
\* truncated, and no larger than the largest count.
MedianOf(K) ==
    LET n == Cardinality(K) IN
    /\ IF n % 2 = 1
       THEN model.typical_naps_count = Ranked(K, (n + 1) \div 2)
       ELSE /\ 2 * model.typical_naps_count <= Ranked(K, n \div 2) + Ranked(K, n \div 2 + 1)
            /\ Ranked(K, n \div 2) + Ranked(K, n \div 2 + 1) < 2 * model.typical_naps_count + 2
    /\ \E k \in K : model.typical_naps_count <= Len(data[k].naps)

\* C12 as stated: trained from at least one trainable record,
\* typical_naps_count is the truncated median of the nap counts of the
\* trainable records.
C12_MedianOfTrainable ==
    (op = "train" /\ \E k \in DOMAIN data : Complete(data[k])) =>
        MedianOf({k \in DOMAIN data : Complete(data[k])})

\* C12 amended: the counts are those of the trainable records dated other
\* than today.
C12_MedianOfHistorical ==
    (op = "train" /\ \E k \in DOMAIN data : Historical(data[k])) =>
        MedianOf({k \in DOMAIN data : Historical(data[k])})

\* Two days, of one nap and of two: the median 1.5 gives 1.
C12_Witness ==
    /\ op = "train"
    /\ data = <<DayShape(1, 2), DayShape(2, 1)>>
    /\ model.typical_naps_count = 1

C14_OnePerDateAscending ==
    \A i, j \in DOMAIN data : i < j => data[i].date < data[j].date

\* C14, its part on a step: no date leaves the collection. (It holds, and so
\* does at most one record per date; the order is what fails.)
C14_DatesKept ==
    [][\A k \in DOMAIN data : \E j \in DOMAIN data' : data'[j].date = data[k].date]_vars

\* C14, its part on uniqueness alone: at most one record per date.
C14_OnePerDate ==
    \A i, j \in DOMAIN data : data[i].date = data[j].date => i = j

----------------------------------------------------------------------------
(* Properties of the commands.                                             *)

HasToday(days) == get_day(days, Today) # 0
TodayOf(days) == days[get_day(days, Today)]
Last(q) == q[Len(q)]

\* C15: once the night sleep was corrected to T (today's night_sleep is T),
\* the schedule a later nap correction stores still has night_sleep T and
\* night_predicted false.
C15_NightCorrectionKept ==
    (op = "correct_nap" /\ TodayOf(data).night_sleep # None) =>
        /\ TodayOf(data).predictions.night_sleep = TodayOf(data).night_sleep
        /\ TodayOf(data).predictions.night_predicted = FALSE

\* Nap i (1-based) of today's record is confirmed as its correction gave it.
ConfirmedAs(days, i, start, end) ==
    LET t == TodayOf(days) IN
    /\ i \in DOMAIN t.naps
    /\ t.naps[i].start = start /\ t.naps[i].end = end /\ ~t.naps[i].predicted
    /\ i \in DOMAIN t.predictions.naps
    /\ t.predictions.naps[i].start = start /\ t.predictions.naps[i].end = end
    /\ ~t.predictions.naps[i].predicted

\* C16: with the saved model unchanged, a successful correction of nap j
\* keeps every other confirmed nap of today's record: same start and end,
\* predicted = false, in today's naps and in the stored predictions.
C16_ConfirmedNapsKept ==
    [][(op' = "correct_nap" /\ HasToday(data)) =>
          \A i \in DOMAIN TodayOf(data).naps :
              (~TodayOf(data).naps[i].predicted /\ i # Last(corrections').nap_number) =>
                  ConfirmedAs(data', i, TodayOf(data).naps[i].start,
                              TodayOf(data).naps[i].end)]_vars

\* Nap 1 was confirmed 09:30-10:45, a new prediction was made, and nap 3 is
\* corrected: nap 1 is back in the stored predictions.
C16_Witness ==
    /\ op = "correct_nap"
    /\ Len(corrections) = 2
    /\ corrections[1] = Corr(1, HM(9, 30), HM(10, 45))
    /\ corrections[2].nap_number = 3
    /\ ConfirmedAs(data, 1, HM(9, 30), HM(10, 45))
    /\ TodayOf(data).morning_wake = HM(7, 15)

\* C17, for the command that follows at once: after `correct i S` without an
\* end, a successful correction of another nap leaves nap i starting at S in
\* the stored schedule.
C17_StartedNapKept ==
    [][(/\ op = "correct_nap" /\ Last(corrections).end = None
        /\ op' = "correct_nap"
        /\ Last(corrections').nap_number # Last(corrections).nap_number) =>
          LET i == Last(corrections).nap_number IN
          /\ i \in DOMAIN TodayOf(data').predictions.naps
          /\ TodayOf(data').predictions.naps[i].start = Last(corrections).start]_vars

\* C18: today's record agrees with its stored predictions: each confirmed
\* nap is in the predictions at the same place with the same times, and a
\* recorded night sleep is the predictions' night sleep, not predicted.
C18_RecordAgreesWithPredictions ==
    (HasToday(data) /\ op \in {"predict", "correct_night", "correct_nap"}) =>
        LET t == TodayOf(data) IN
        /\ \A i \in DOMAIN t.naps :
              ~t.naps[i].predicted =>
                  /\ i \in DOMAIN t.predictions.naps
                  /\ t.predictions.naps[i].start = t.naps[i].start
                  /\ t.predictions.naps[i].end = t.naps[i].end
        /\ t.night_sleep # None =>
              /\ t.predictions.night_sleep = t.night_sleep
              /\ t.predictions.night_predicted = FALSE

\* C19: a rejected correct command reports its error and leaves the saved
\* records and the saved model as they were.
C19_RejectedChangesNothing ==
    [][op' \in {"error_time", "error_no_wake", "error_target", "error_end",
                "error_nap_number"} =>
          data' = data /\ model_file' = model_file]_vars

\* A correction before any prediction: rejected, and today's record, which
\* the command created in memory, is not in the saved collection.
C19_Witness ==
    /\ op = "error_no_wake"
    /\ data = CliHistory
    /\ ~HasToday(data)

====
